---- MODULE Spec2Model ----
(***************************************************************************)
(* Waveform synthesis and PCM encoding pipeline of                         *)
(* _exercice_version_prof.py: channel interleaving, normalisation, time    *)
(* axis and the 16-bit PCM codec.                                          *)
(*                                                                         *)
(* A sample is an exact rational <<n, d>> in lowest terms with d > 0.      *)
(* The IEEE values the code can produce are the pairs with d = 0:          *)
(* <<1, 0>> is +inf, <<-1, 0>> is -inf and <<0, 0>> is NaN.                *)
(***************************************************************************)
EXTENDS Integers, Sequences, FiniteSets, TLC

\* ------------------------------------------------------------ constants
SAMPLING_FREQ == 44100
SAMPLE_WIDTH == 16
MAX_INT_SAMPLE_VALUE == 2^(SAMPLE_WIDTH - 1) - 1

\* ------------------------------------------------------------ bounds
\* longest signal handed to the pipeline by the caller
MaxLen == 2
\* most channels in a channel set handed to merge_channels
MaxChannels == 3
\* longest channel of such a channel set
MaxFrames == 2
\* longest byte buffer handed to convert_to_samples
MaxBytes == 4
\* durations are j / (DurDen * SAMPLING_FREQ) for j in -2 .. MaxDurNum
MaxDurNum == 4
DurDen == 2
\* largest numerator or denominator normalize is applied to (keeps the
\* three-factor products inside TLC's 32-bit integers)
MaxExactNormalize == 2000
\* largest numerator or denominator convert_to_bytes is applied to
\* (32767 * n stays inside TLC's 32-bit integers)
MaxExactConvert == 65000

\* ------------------------------------------------------------ numbers
Abs(n) == IF n < 0 THEN -n ELSE n

Sign(n) == IF n < 0 THEN -1 ELSE IF n > 0 THEN 1 ELSE 0

RECURSIVE GCD(_, _)
GCD(a, b) == IF b = 0 THEN a ELSE GCD(b, a % b)

\* the float n / d (d = 0 gives the IEEE special of that sign)
Rat(n, d) ==
    IF d = 0 THEN <<Sign(n), 0>>
    ELSE LET g == GCD(Abs(n), Abs(d))
         IN  <<Sign(d) * Sign(n) * (Abs(n) \div g), Abs(d) \div g>>

Zero == <<0, 1>>
One == <<1, 1>>
MinusOne == <<-1, 1>>
NaN == <<0, 0>>

IsNaN(a) == a = NaN
IsFinite(a) == a[2] # 0

\* float multiplication: inf * 0 = NaN, NaN * x = NaN
RMul(a, b) ==
    IF a[2] = 0 \/ b[2] = 0 THEN <<Sign(a[1]) * Sign(b[1]), 0>>
    ELSE LET g1 == GCD(Abs(a[1]), b[2])
             g2 == GCD(Abs(b[1]), a[2])
         IN  Rat((a[1] \div g1) * (b[1] \div g2), (a[2] \div g2) * (b[2] \div g1))

\* float division: x / 0 = +-inf, 0 / 0 = NaN, x / inf = 0
RDiv(a, b) ==
    IF IsNaN(b) THEN NaN
    ELSE IF b[2] = 0 THEN RMul(a, Zero)
    ELSE IF b[1] = 0 THEN RMul(a, <<1, 0>>)
    ELSE RMul(a, <<Sign(b[1]) * b[2], Abs(b[1])>>)

\* float comparison a < b: False as soon as one side is NaN
RLt(a, b) ==
    IF IsNaN(a) \/ IsNaN(b) THEN FALSE
    ELSE IF a = b THEN FALSE
    ELSE IF a[2] = 0 THEN a[1] < 0
    ELSE IF b[2] = 0 THEN b[1] > 0
    ELSE a[1] * b[2] < b[1] * a[2]

RLe(a, b) == ~IsNaN(a) /\ ~IsNaN(b) /\ ~RLt(b, a)

RAbs(a) == <<Abs(a[1]), a[2]>>

RNeg(a) == <<-a[1], a[2]>>

\* every numerator and denominator of s is at most m
Exact(s, m) == \A i \in 1..Len(s) : Abs(s[i][1]) <= m /\ s[i][2] <= m

\* ------------------------------------------------------------ functions
\* itertools semantics of zip(*channels): one frame per index, until the
\* first channel is exhausted; no frame at all without channels
RECURSIVE Zip(_)
Zip(chs) ==
    IF Len(chs) = 0 \/ (\E c \in 1..Len(chs) : Len(chs[c]) = 0) THEN <<>>
    ELSE <<[c \in 1..Len(chs) |-> Head(chs[c])]>>
         \o Zip([c \in 1..Len(chs) |-> Tail(chs[c])])

\* (sample for samples in frames for sample in samples)
RECURSIVE Flatten(_)
Flatten(frames) ==
    IF Len(frames) = 0 THEN <<>> ELSE Head(frames) \o Flatten(Tail(frames))

\* a merge that puts the channels one after the other
merge_channels_concat(chs) == Flatten(chs)

\* np.fromiter(..., float) keeps the value of every real sample
merge_channels(chs) == Flatten(Zip(chs))

\* samples[start::step], start counted from 0
RECURSIVE StridedSlice(_, _, _)
StridedSlice(s, start, step) ==
    IF start >= Len(s) THEN <<>>
    ELSE <<s[start + 1]>> \o StridedSlice(s, start + step, step)

\* a separation into num_channels consecutive blocks
separate_channels_blocks(s, n) ==
    IF n <= 0 THEN <<>>
    ELSE LET k == Len(s) \div n
         IN  [c \in 1..n |-> SubSeq(s, (c - 1) * k + 1, c * k)]

\* [samples[i::num_channels] for i in range(num_channels)]
separate_channels(s, n) ==
    IF n <= 0 THEN <<>>
    ELSE [c \in 1..n |-> StridedSlice(s, c - 1, n)]

\* a count of time points that rounds down
Ceil_floor(a) ==
    IF a[1] <= 0 THEN -((Abs(a[1]) + a[2] - 1) \div a[2])
    ELSE a[1] \div a[2]

\* ceil(n / d) for d > 0
Ceil(a) ==
    IF a[1] <= 0 THEN -(Abs(a[1]) \div a[2])
    ELSE (a[1] + a[2] - 1) \div a[2]

\* np.arange(0, stop): 0, 1, ... below stop
Arange(stop) ==
    LET len == IF Ceil(stop) > 0 THEN Ceil(stop) ELSE 0
    IN  [i \in 1..len |-> Rat(i - 1, 1)]

generate_sample_time_points(d) ==
    LET points == Arange(RMul(d, Rat(SAMPLING_FREQ, 1)))
    IN  [i \in 1..Len(points) |-> RDiv(points[i], Rat(SAMPLING_FREQ, 1))]

\* Python's max(iterable): keeps the first element unless a later one
\* compares greater
RECURSIVE PyMaxFrom(_, _)
PyMaxFrom(cur, rest) ==
    IF Len(rest) = 0 THEN cur
    ELSE PyMaxFrom(IF RLt(cur, Head(rest)) THEN Head(rest) ELSE cur, Tail(rest))

PyMax(s) == PyMaxFrom(Head(s), Tail(s))

NpAbs(s) == [i \in 1..Len(s) |-> RAbs(s[i])]

\* a normalisation that scales by the first sample instead of the peak
normalize_first(s, target) ==
    IF Len(s) = 0 THEN [err |-> "ValueError", value |-> <<>>]
    ELSE LET coeff == RDiv(target, RAbs(Head(s)))
         IN  [err |-> "none", value |-> [i \in 1..Len(s) |-> RMul(coeff, s[i])]]

\* result of a call: the exception raised ("none" when it returns) and
\* the value returned
normalize(s, target) ==
    IF Len(s) = 0 THEN [err |-> "ValueError", value |-> <<>>]
    ELSE LET abs_samples == NpAbs(s)
             max_sample == PyMax(abs_samples)
             coeff == RDiv(target, max_sample)
         IN  [err |-> "none", value |-> [i \in 1..Len(s) |-> RMul(coeff, s[i])]]

\* np.clip(x, -1, 1) = minimum(maximum(x, -1), 1); NaN stays NaN
Clip(x) ==
    IF IsNaN(x) THEN NaN
    ELSE IF RLt(x, MinusOne) THEN MinusOne
    ELSE IF RLt(One, x) THEN One
    ELSE x

\* outcomes of the C cast of NaN to a 16-bit integer
NaNCastOutcomes == {0, -32768}

\* a cast that rounds toward minus infinity
AsTypeI2_floor(x, nan_cast) ==
    IF ~IsFinite(x) THEN nan_cast
    ELSE IF x[1] >= 0 THEN x[1] \div x[2]
    ELSE -((Abs(x[1]) + x[2] - 1) \div x[2])

\* .astype("<i2"): the C cast, truncation toward zero; the cast of a
\* value that is no number is undefined and yields nan_cast
AsTypeI2(x, nan_cast) ==
    IF ~IsFinite(x) THEN nan_cast
    ELSE Sign(x[1]) * (Abs(x[1]) \div x[2])

\* a serialisation that writes the most significant byte first
ToBytesLE_big(k) ==
    LET u == IF k < 0 THEN k + 65536 ELSE k
    IN  <<u \div 256, u % 256>>

\* the two bytes of a 16-bit integer, least significant first
ToBytesLE(k) ==
    LET u == IF k < 0 THEN k + 65536 ELSE k
    IN  <<u % 256, u \div 256>>

RECURSIVE ToBytes(_)
ToBytes(ints) ==
    IF Len(ints) = 0 THEN <<>> ELSE ToBytesLE(Head(ints)) \o ToBytes(Tail(ints))

convert_to_bytes(s, nan_cast) ==
    LET clipped == [i \in 1..Len(s) |-> Clip(s[i])]
        int_samples == [i \in 1..Len(s) |->
                           AsTypeI2(RMul(clipped[i], Rat(MAX_INT_SAMPLE_VALUE, 1)), nan_cast)]
    IN  ToBytes(int_samples)

\* the 16-bit signed integer stored least significant byte first
FromBytesLE(lo, hi) ==
    LET u == lo + 256 * hi
    IN  IF u >= 32768 THEN u - 65536 ELSE u

\* a decoder that ignores a trailing odd byte
FromBuffer_lenient(b) ==
    [err |-> "none",
     value |-> [k \in 1..(Len(b) \div 2) |-> FromBytesLE(b[2 * k - 1], b[2 * k])]]

\* np.frombuffer(bytes, dtype="<i2"): refuses a buffer that is not a
\* whole number of items
FromBuffer(b) ==
    IF Len(b) % 2 # 0 THEN [err |-> "ValueError", value |-> <<>>]
    ELSE [err |-> "none",
          value |-> [k \in 1..(Len(b) \div 2) |-> FromBytesLE(b[2 * k - 1], b[2 * k])]]

convert_to_samples(b) ==
    LET int_samples == FromBuffer(b)
    IN  IF int_samples.err # "none" THEN int_samples
        ELSE [err |-> "none",
              value |-> [k \in 1..Len(int_samples.value) |->
                            RDiv(Rat(int_samples.value[k], 1), Rat(MAX_INT_SAMPLE_VALUE, 1))]]

\* ------------------------------------------------------------ inputs
SeqsUpTo(S, n) == UNION {[1..k -> S] : k \in 0..n}

SampleValues ==
    {Rat(-3, 2), Rat(-1, 1), Rat(-2, 3), Rat(0, 1), Rat(1, 2), Rat(1, 1)}

SignalInputs == SeqsUpTo(SampleValues, MaxLen)

\* frame i of channel c carries a sample no other place carries, so that a
\* sample found at a wrong place is seen
Label(c, i) == Rat(8 * c + i, 64)

\* the channel sets of every shape: up to MaxChannels channels, each of
\* its own length up to MaxFrames
ChannelInputs ==
    UNION {{[c \in 1..n |-> [i \in 1..lens[c] |-> Label(c, i)]] :
               lens \in [1..n -> 0..MaxFrames]} : n \in 0..MaxChannels}

ByteValues == {0, 127, 128, 255}

ByteInputs == SeqsUpTo(ByteValues, MaxBytes)

NormTargets == {Rat(-1, 2), Rat(0, 1), Rat(89, 100)}

Durations == {Rat(j, DurDen * SAMPLING_FREQ) : j \in -2..MaxDurNum}

ChannelCounts == 0..MaxChannels

\* ------------------------------------------------------------ state
\* The functions are pure: the state is the caller's.  The caller holds one
\* value at a time, the one the last call returned (a channel set, a signal
\* or a PCM buffer), and hands it to the next call; the arguments of the
\* last call, and the channel set or signal the call before it was given,
\* are remembered next to it.
VARIABLES
    op,            \* the function called last
    prev_op,       \* the function called before it
    err,           \* the exception the last call raised, "none" if it returned
    channels,      \* the channel set the caller holds
    samples,       \* the signal the caller holds
    bytes,         \* the PCM buffer the caller holds
    num_channels,  \* argument of the last call, if separate_channels
    norm_target,   \* argument of the last call, if normalize
    duration,      \* argument of the last call, if generate_sample_time_points
    arg_channels,  \* the channel set given to merge_channels, last or before last
    arg_samples,   \* the signal given to the last call or to the one before it
    arg_bytes      \* the buffer given to the last call, if convert_to_samples

vars == <<op, prev_op, err, channels, samples, bytes, num_channels, norm_target,
          duration, arg_channels, arg_samples, arg_bytes>>

Init ==
    /\ op = "start"
    /\ prev_op = "start"
    /\ err = "none"
    /\ \/ channels \in ChannelInputs /\ samples = <<>> /\ bytes = <<>>
       \/ channels = <<>> /\ samples \in SignalInputs /\ bytes = <<>>
       \/ channels = <<>> /\ samples = <<>> /\ bytes \in ByteInputs
    /\ num_channels = 0
    /\ norm_target = Zero
    /\ duration = Zero
    /\ arg_channels = <<>>
    /\ arg_samples = <<>>
    /\ arg_bytes = <<>>

MergeChannels ==
    /\ op' = "merge_channels"
    /\ prev_op' = op
    /\ err' = "none"
    /\ arg_channels' = channels
    /\ samples' = merge_channels(channels)
    /\ channels' = <<>>
    /\ bytes' = <<>>
    /\ num_channels' = 0
    /\ norm_target' = Zero
    /\ duration' = Zero
    /\ arg_samples' = <<>>
    /\ arg_bytes' = <<>>

SeparateChannels ==
    \E n \in ChannelCounts :
        /\ op' = "separate_channels"
        /\ prev_op' = op
        /\ err' = "none"
        /\ num_channels' = n
        /\ arg_samples' = samples
        /\ channels' = separate_channels(samples, n)
        /\ samples' = <<>>
        /\ bytes' = <<>>
        /\ norm_target' = Zero
        /\ duration' = Zero
        /\ arg_channels' = IF op = "merge_channels" THEN arg_channels ELSE <<>>
        /\ arg_bytes' = <<>>

GenerateSampleTimePoints ==
    \E d \in Durations :
        /\ op' = "generate_sample_time_points"
        /\ prev_op' = op
        /\ err' = "none"
        /\ duration' = d
        /\ samples' = generate_sample_time_points(d)
        /\ channels' = <<>>
        /\ bytes' = <<>>
        /\ num_channels' = 0
        /\ norm_target' = Zero
        /\ arg_channels' = <<>>
        /\ arg_samples' = <<>>
        /\ arg_bytes' = <<>>

Normalize ==
    \E t \in NormTargets :
        /\ Exact(samples, MaxExactNormalize)
        /\ LET r == normalize(samples, t)
           IN  /\ err' = r.err
               /\ samples' = IF r.err = "none" THEN r.value ELSE samples
        /\ op' = "normalize"
        /\ prev_op' = op
        /\ norm_target' = t
        /\ arg_samples' = samples
        /\ channels' = <<>>
        /\ bytes' = <<>>
        /\ num_channels' = 0
        /\ duration' = Zero
        /\ arg_channels' = <<>>
        /\ arg_bytes' = <<>>

ConvertToBytes ==
    \E nan_cast \in NaNCastOutcomes :
        /\ Exact(samples, MaxExactConvert)
        /\ op' = "convert_to_bytes"
        /\ prev_op' = op
        /\ err' = "none"
        /\ arg_samples' = samples
        /\ bytes' = convert_to_bytes(samples, nan_cast)
        /\ samples' = <<>>
        /\ channels' = <<>>
        /\ num_channels' = 0
        /\ norm_target' = Zero
        /\ duration' = Zero
        /\ arg_channels' = <<>>
        /\ arg_bytes' = <<>>

ConvertToSamples ==
    /\ LET r == convert_to_samples(bytes)
       IN  /\ err' = r.err
           /\ samples' = r.value
           /\ bytes' = IF r.err = "none" THEN <<>> ELSE bytes
    /\ op' = "convert_to_samples"
    /\ prev_op' = op
    /\ arg_bytes' = bytes
    /\ arg_samples' = IF op = "convert_to_bytes" THEN arg_samples ELSE <<>>
    /\ channels' = <<>>
    /\ num_channels' = 0
    /\ norm_target' = Zero
    /\ duration' = Zero
    /\ arg_channels' = <<>>

Next ==
    \/ MergeChannels
    \/ SeparateChannels
    \/ GenerateSampleTimePoints
    \/ Normalize
    \/ ConvertToBytes
    \/ ConvertToSamples

Spec == Init /\ [][Next]_vars

\* ------------------------------------------------------------ properties
EqualLengths(chs) == \A c, e \in 1..Len(chs) : Len(chs[c]) = Len(chs[e])

\* C1: separating what merge_channels made of equal-length channels, into as
\* many channels as were merged, gives back exactly those channels.
RoundTripChannels ==
    (/\ op = "separate_channels"
     /\ prev_op = "merge_channels"
     /\ EqualLengths(arg_channels)
     /\ num_channels = Len(arg_channels))
    => channels = arg_channels

RoundTripChannelsReached ==
    /\ op = "separate_channels"
    /\ prev_op = "merge_channels"
    /\ EqualLengths(arg_channels)
    /\ num_channels = Len(arg_channels)
    /\ Len(arg_channels) = 3
    /\ Len(arg_channels[1]) = 2
    /\ Len(arg_samples) = 6

\* C2: merge_channels of C equal-length channels of length L has C * L
\* samples, and sample i * C + c is sample i of channel c (counted from 0).
MergeInterleaves ==
    (op = "merge_channels" /\ EqualLengths(arg_channels))
    => IF Len(arg_channels) = 0 THEN samples = <<>>
       ELSE LET C == Len(arg_channels)
                L == Len(arg_channels[1])
            IN  /\ Len(samples) = C * L
                /\ \A i \in 0..(L - 1), c \in 0..(C - 1) :
                       samples[i * C + c + 1] = arg_channels[c + 1][i + 1]

MergeInterleavesReached ==
    /\ op = "merge_channels"
    /\ EqualLengths(arg_channels)
    /\ Len(arg_channels) = 3
    /\ Len(arg_channels[1]) = 2
    /\ Len(samples) = 6

\* the 16-bit signed integer at bytes 2k-1 and 2k of b, least significant
\* byte first
WordAt(b, k) == b[2 * k - 1] + 256 * b[2 * k] - (IF b[2 * k] >= 128 THEN 65536 ELSE 0)

\* v is 32767 * clip(x, -1, 1) truncated toward zero
IsTruncatedScaledClip(v, x) ==
    LET n == IF x[1] > x[2] THEN 1 ELSE IF x[1] < -x[2] THEN -1 ELSE x[1]
        d == IF x[1] > x[2] \/ x[1] < -x[2] THEN 1 ELSE x[2]
    IN  /\ v * n >= 0
        /\ Abs(v) * d <= MAX_INT_SAMPLE_VALUE * Abs(n)
        /\ MAX_INT_SAMPLE_VALUE * Abs(n) < (Abs(v) + 1) * d

\* C3: convert_to_bytes writes 2 bytes per sample, in order: the little-endian
\* signed 16-bit integer trunc(32767 * clip(x, -1, 1)), which lies in
\* -32767 .. 32767; [1.0, -1.0] becomes FF 7F 01 80.
ConvertToBytesEncoding ==
    op = "convert_to_bytes"
    => /\ Len(bytes) = 2 * Len(arg_samples)
       /\ \A j \in 1..Len(bytes) : bytes[j] \in 0..255
       /\ \A k \in 1..Len(arg_samples) :
              IsFinite(arg_samples[k])
              => /\ WordAt(bytes, k) \in (-MAX_INT_SAMPLE_VALUE)..MAX_INT_SAMPLE_VALUE
                 /\ IsTruncatedScaledClip(WordAt(bytes, k), arg_samples[k])
       /\ arg_samples = <<One, MinusOne>> => bytes = <<255, 127, 1, 128>>

ConvertToBytesEncodingReached ==
    /\ op = "convert_to_bytes"
    /\ arg_samples = <<Rat(-2, 3), Rat(-3, 2)>>
    /\ Len(bytes) = 4

\* C4: decoding what convert_to_bytes encoded gives as many samples as were
\* encoded; a sample with |x| <= 1 comes back within 1/32767 of x, a sample
\* with |x| > 1 comes back as +1 or -1.
RoundTripSamples ==
    (op = "convert_to_samples" /\ prev_op = "convert_to_bytes")
    => /\ err = "none"
       /\ Len(samples) = Len(arg_samples)
       /\ \A k \in 1..Len(arg_samples) :
              LET x == arg_samples[k]
                  y == samples[k]
              IN  IsFinite(x)
                  => /\ IsFinite(y)
                     /\ Abs(x[1]) <= x[2]
                        => Abs(x[1] * y[2] - y[1] * x[2])
                               <= (x[2] * y[2]) \div MAX_INT_SAMPLE_VALUE
                     /\ x[1] > x[2] => y = One
                     /\ x[1] < -x[2] => y = MinusOne

RoundTripSamplesReached ==
    /\ op = "convert_to_samples"
    /\ prev_op = "convert_to_bytes"
    /\ arg_samples = <<Rat(-2, 3), Rat(-3, 2)>>
    /\ Len(samples) = 2

\* x is a signal normalize is meant for: not empty, real, not all zero
NonDegenerate(x) ==
    /\ Len(x) > 0
    /\ \A i \in 1..Len(x) : IsFinite(x[i])
    /\ \E i \in 1..Len(x) : x[i] # Zero

\* the largest |x_i| of a real signal that is not empty
Peak(x) ==
    CHOOSE m \in {RAbs(x[i]) : i \in 1..Len(x)} :
        \A i \in 1..Len(x) : RLe(RAbs(x[i]), m)

\* C5, as claimed: the peak of normalize(x, t) is t, for every real t.
NormalizePeakIsTarget ==
    (op = "normalize" /\ err = "none" /\ NonDegenerate(arg_samples))
    => Peak(samples) = norm_target

\* C5, as the code has it: every sample of normalize(x, t) is
\* x_i * t / max|x|, and the peak of the result is |t| (t itself when t >= 0).
NormalizeScalesToTarget ==
    (op = "normalize" /\ NonDegenerate(arg_samples))
    => /\ err = "none"
       /\ Len(samples) = Len(arg_samples)
       /\ \A i \in 1..Len(samples) :
              /\ IsFinite(samples[i])
              /\ RMul(samples[i], Peak(arg_samples)) = RMul(arg_samples[i], norm_target)
              /\ RLe(RAbs(samples[i]), RAbs(norm_target))
       /\ \E i \in 1..Len(samples) : RAbs(samples[i]) = RAbs(norm_target)

NormalizeScalesToTargetReached ==
    /\ op = "normalize"
    /\ err = "none"
    /\ arg_samples = <<Rat(1, 2), Rat(-3, 2)>>
    /\ norm_target = Rat(-1, 2)
    /\ samples = <<Rat(-1, 6), Rat(1, 2)>>

\* C6: normalize of an empty or all-zero signal raises an error.
NormalizeRejectsDegenerate ==
    (/\ op = "normalize"
     /\ \A i \in 1..Len(arg_samples) : arg_samples[i] = Zero)
    => err # "none"

\* C7: merge_channels of channels of unequal lengths raises an error.
MergeRejectsUnequalLengths ==
    (op = "merge_channels" /\ ~EqualLengths(arg_channels)) => err # "none"

\* C8: convert_to_samples raises an error on a buffer of odd length and
\* returns nothing; of 2n bytes it makes n samples, sample k being the
\* little-endian signed 16-bit integer at bytes 2k, 2k+1 (counted from 0)
\* divided by 32767.
ConvertToSamplesDecoding ==
    op = "convert_to_samples"
    => IF Len(arg_bytes) % 2 = 1
       THEN err # "none" /\ samples = <<>>
       ELSE /\ err = "none"
            /\ 2 * Len(samples) = Len(arg_bytes)
            /\ \A k \in 1..Len(samples) :
                   /\ samples[k][2] > 0
                   /\ samples[k][1] * MAX_INT_SAMPLE_VALUE
                          = WordAt(arg_bytes, k) * samples[k][2]

ConvertToSamplesDecodingReached ==
    /\ op = "convert_to_samples"
    /\ arg_bytes = <<255, 127, 0>>
    /\ err = "ValueError"

\* C9: given a signal whose length num_channels >= 1 does not divide,
\* separate_channels fails or returns channels of floor(len / num_channels)
\* samples each, with channels[c][i] = samples[i * num_channels + c].
SeparateDropsIncompleteFrame ==
    (/\ op = "separate_channels"
     /\ num_channels >= 1
     /\ Len(arg_samples) % num_channels # 0)
    => \/ err # "none"
       \/ /\ Len(channels) = num_channels
          /\ \A c \in 0..(num_channels - 1) :
                 /\ Len(channels[c + 1]) = Len(arg_samples) \div num_channels
                 /\ \A i \in 0..(Len(channels[c + 1]) - 1) :
                        channels[c + 1][i + 1] = arg_samples[i * num_channels + c + 1]

\* C10: generate_sample_time_points(duration) has ceil(duration * 44100)
\* points when duration >= 0 and none when duration < 0; point i is
\* i / 44100, so the points start at 0 and increase strictly.
TimePointsEvenlySpaced ==
    op = "generate_sample_time_points"
    => /\ err = "none"
       /\ IF duration[1] < 0 THEN samples = <<>>
          ELSE /\ (Len(samples) - 1) * duration[2] < duration[1] * SAMPLING_FREQ
               /\ duration[1] * SAMPLING_FREQ <= Len(samples) * duration[2]
       /\ \A i \in 0..(Len(samples) - 1) :
              /\ samples[i + 1][2] > 0
              /\ samples[i + 1][1] * SAMPLING_FREQ = i * samples[i + 1][2]
       /\ \A i, j \in 1..Len(samples) : i < j => RLt(samples[i], samples[j])

TimePointsEvenlySpacedReached ==
    /\ op = "generate_sample_time_points"
    /\ RMul(duration, Rat(SAMPLING_FREQ, 1)) = Rat(3, 2)
    /\ Len(samples) = 2

====
